---- MODULE Spec2Model ----
(***************************************************************************)
(* Model of the request-dispatch core of ChallengeAgentesAI:               *)
(*   AgenteCoordinador (coordinador.py)  - Request Classifier              *)
(*   AgenteEjecutor    (ejecutor.py)     - Capability Invoker              *)
(*   AgenteGenerador   (generador.py)    - Code Synthesizer                *)
(*   RegistryTools     (registry.py)     - Capability Catalog              *)
(*   SistemaAgentes    (sistema.py)      - Orchestrator                    *)
(* Texts (requests, trigger phrases, capability names) are strings and the *)
(* string functions of the code (lower, split, join, the `in` substring    *)
(* test) are computed character by character.                              *)
(***************************************************************************)
EXTENDS Integers, Sequences, FiniteSets, TLC

VARIABLES
    estado,                   \* SistemaAgentes.estado
    consultas_procesadas,     \* SistemaAgentes.consultas_procesadas
    pc,                       \* position of procesar_consulta: "idle" | "procesando"
    decision,                 \* the decision of the request in flight
    herramientas_disponibles, \* AgenteCoordinador.herramientas_disponibles
    historial_consultas,      \* AgenteCoordinador.historial_consultas
    herramientas,             \* AgenteEjecutor.herramientas: name -> callable
    herramientas_generadas,   \* AgenteEjecutor.herramientas_generadas
    herramientas_registradas, \* RegistryTools.herramientas_registradas
    historial_herramientas,   \* RegistryTools.historial_herramientas
    archivo,                  \* the durable store tools_registry.json
    api_key,                  \* AgenteGenerador.api_key (TRUE: configured)
    ret,                      \* what the last completed call returned
    nombres_derivados         \* history: per request text, the names procesar_consulta
                              \* derived from it and how often (counted up to 2)

vars == << estado, consultas_procesadas, pc, decision, herramientas_disponibles,
           historial_consultas, herramientas, herramientas_generadas,
           herramientas_registradas,
           historial_herramientas, archivo, api_key, ret, nombres_derivados >>

-----------------------------------------------------------------------------
(* Bounds of the model.                                                    *)

\* requests accepted since construction or the last reset
MaxConsultas == 2
\* length of the Catalog's audit trail
MaxHistorial == 2
\* invocations counted for one entry of the Catalog
MaxUso == 2

-----------------------------------------------------------------------------
(* Python's str functions.                                                 *)

Mayusculas == "ABCDEFGHIJKLMNOPQRSTUVWXYZÁÉÍÓÚÑ"
Minusculas == "abcdefghijklmnopqrstuvwxyzáéíóúñ"

\* str.lower() of one character
LowerChar(c) ==
    IF \E i \in 1..Len(Mayusculas) : SubSeq(Mayusculas, i, i) = c
    THEN LET i == CHOOSE i \in 1..Len(Mayusculas) : SubSeq(Mayusculas, i, i) = c
         IN  SubSeq(Minusculas, i, i)
    ELSE c

RECURSIVE Lower(_)
\* str.lower()
Lower(s) ==
    IF Len(s) = 0 THEN ""
    ELSE LowerChar(SubSeq(s, 1, 1)) \o Lower(SubSeq(s, 2, Len(s)))

\* U+0131, the dotless i of Turkish and Azeri text: strings of this module
\* hold characters up to U+00FF, so it is written as the sign U+00A4, which
\* no request and no trigger uses and which str.lower() and str.upper() leave
\* alone
i_sin_punto == "¤"

\* str.upper() of one character; the upper case of U+0131 is "I" (whose lower
\* case is "i"), while str.lower() leaves U+0131 as it is
UpperChar(c) ==
    IF c = i_sin_punto THEN "I"
    ELSE IF \E i \in 1..Len(Minusculas) : SubSeq(Minusculas, i, i) = c
    THEN LET i == CHOOSE i \in 1..Len(Minusculas) : SubSeq(Minusculas, i, i) = c
         IN  SubSeq(Mayusculas, i, i)
    ELSE c

RECURSIVE Upper(_)
\* str.upper()
Upper(s) ==
    IF Len(s) = 0 THEN ""
    ELSE UpperChar(SubSeq(s, 1, 1)) \o Upper(SubSeq(s, 2, Len(s)))

\* Python's `t in s` for strings: t is a contiguous substring of s
Contiene(s, t) ==
    \E i \in 1..(Len(s) - Len(t) + 1) : SubSeq(s, i, i + Len(t) - 1) = t

\* any(p in s for p in ps), ps a sequence of strings
AlgunoEn(ps, s) == \E k \in 1..Len(ps) : Contiene(s, ps[k])

EsEspacio(c) == c \in {" ", "\t", "\n"}

RECURSIVE SplitDesde(_, _, _, _)
\* str.split(): the maximal runs of non-whitespace characters, in order
SplitDesde(s, i, actual, palabras) ==
    IF i > Len(s)
    THEN IF Len(actual) = 0 THEN palabras ELSE Append(palabras, actual)
    ELSE LET c == SubSeq(s, i, i) IN
         IF EsEspacio(c)
         THEN SplitDesde(s, i + 1, "",
                         IF Len(actual) = 0 THEN palabras ELSE Append(palabras, actual))
         ELSE SplitDesde(s, i + 1, actual \o c, palabras)

Split(s) == SplitDesde(s, 1, "", << >>)

RECURSIVE Join(_, _)
\* sep.join(palabras)
Join(palabras, sep) ==
    IF Len(palabras) = 0 THEN ""
    ELSE IF Len(palabras) = 1 THEN palabras[1]
    ELSE palabras[1] \o sep \o Join(Tail(palabras), sep)

\* lista[:n]
Primeros(lista, n) == SubSeq(lista, 1, IF Len(lista) < n THEN Len(lista) ELSE n)

-----------------------------------------------------------------------------
(* The request texts the model feeds to the program.                       *)

\* the requests made to the Orchestrator
Consultas ==
    { "who am i",            \* builtin get_current_user_info
      "buscar usuarios",     \* builtin search_users_by_department
      "RESET",               \* builtin reset_system
      "rootdse",             \* offensive tool_rootdse_info
      "starttls",            \* offensive tool_starttls_test
      "cuantos grupos hay",  \* no trigger, ldap_query
      "hola mundo" }         \* no trigger, generic_query

\* the requests made to the Synthesizer and the Classifier alone
Textos ==
    Consultas \cup
    { "Hola  Mundo",         \* the words of "hola mundo", another text
      "di \"hola\"" }        \* no trigger, generic_query, holds a double quote

-----------------------------------------------------------------------------
(* AgenteCoordinador: the Request Classifier.                              *)

\* Python's None, where the code returns or holds it
None == "<None>"

\* a list of known patterns one of which no branch of _identificar_herramienta holds
patrones_con_huerfano ==
    << "quién soy", "quien soy", "who am i", "reset", "hola" >>

patrones_conocidos ==
    << "quién soy", "quien soy", "who am i",
       "qué grupos tengo", "que grupos tengo", "what groups",
       "reset", "reseteo", "reiniciar",
       "listar usuarios", "lista usuarios", "todos los usuarios", "list users", "all users",
       "buscar usuarios", "usuarios por departamento", "search users", "users by department",
       "estructura ldap", "estructura del directorio", "ldap structure", "directory structure",
       "rootdse", "root dse", "rootdse info", "root dse info",
       "análisis rootdse", "analisis rootdse", "rootdse analysis",
       "información servidor", "server info", "ldap info", "ldap server info",
       "enumeración anónima", "enumeracion anonima", "anonymous enum",
       "bind anónimo", "bind anonimo", "anonymous bind",
       "usuarios anónimos", "usuarios anonimos", "anonymous users",
       "enumerar usuarios", "enumerar grupos", "list users groups",
       "starttls", "start tls", "tls test", "test tls",
       "test seguridad", "seguridad tls", "tls security",
       "downgrade tls", "tls downgrade", "handshake tls" >>

_puede_responder_directamente(consulta) ==
    AlgunoEn(patrones_conocidos, Lower(consulta))

\* the if/elif chain of _identificar_herramienta, one row per branch, in order
TablaHerramientas ==
    << [ herramienta |-> "get_current_user_info",
         palabras |-> << "quién soy", "quien soy", "who am i" >> ],
       [ herramienta |-> "get_user_groups",
         palabras |-> << "qué grupos", "que grupos", "what groups" >> ],
       [ herramienta |-> "reset_system",
         palabras |-> << "reset", "reseteo", "reiniciar" >> ],
       [ herramienta |-> "list_all_users",
         palabras |-> << "listar usuarios", "lista usuarios", "todos los usuarios",
                         "list users", "all users" >> ],
       [ herramienta |-> "search_users_by_department",
         palabras |-> << "buscar usuarios", "usuarios por departamento",
                         "search users", "users by department" >> ],
       [ herramienta |-> "analyze_ldap_structure",
         palabras |-> << "estructura ldap", "estructura del directorio",
                         "ldap structure", "directory structure" >> ],
       [ herramienta |-> "tool_rootdse_info",
         palabras |-> << "rootdse", "root dse", "rootdse info", "root dse info",
                         "análisis rootdse", "analisis rootdse", "rootdse analysis",
                         "información servidor", "server info", "ldap info",
                         "ldap server info" >> ],
       [ herramienta |-> "tool_anonymous_enum",
         palabras |-> << "enumeración anónima", "enumeracion anonima", "anonymous enum",
                         "bind anónimo", "bind anonimo", "anonymous bind",
                         "usuarios anónimos", "usuarios anonimos", "anonymous users",
                         "enumerar usuarios", "enumerar grupos", "list users groups" >> ],
       [ herramienta |-> "tool_starttls_test",
         palabras |-> << "starttls", "start tls", "tls test", "test tls",
                         "test seguridad", "seguridad tls", "tls security",
                         "downgrade tls", "tls downgrade", "handshake tls" >> ] >>

_identificar_herramienta(consulta) ==
    LET consulta_lower == Lower(consulta)
        filas == { k \in 1..Len(TablaHerramientas) :
                     AlgunoEn(TablaHerramientas[k].palabras, consulta_lower) }
    IN  IF filas = {} THEN None
        ELSE TablaHerramientas[CHOOSE k \in filas : \A j \in filas : k <= j].herramienta

_determinar_tipo_herramienta(consulta) ==
    LET consulta_lower == Lower(consulta) IN
    IF AlgunoEn(<< "grupos", "groups" >>, consulta_lower) THEN "ldap_query"
    ELSE IF AlgunoEn(<< "usuarios", "users" >>, consulta_lower) THEN "ldap_query"
    ELSE IF AlgunoEn(<< "departamento", "department" >>, consulta_lower) THEN "ldap_query"
    ELSE "generic_query"

analizar_consulta(consulta) ==
    IF _puede_responder_directamente(consulta)
    THEN [ accion |-> "ejecutar", agente |-> "ejecutor",
           herramienta |-> _identificar_herramienta(consulta),
           consulta |-> consulta ]
    ELSE [ accion |-> "generar", agente |-> "generador",
           consulta |-> consulta,
           tipo_herramienta |-> _determinar_tipo_herramienta(consulta) ]

\* analizar_consulta over the requests of the model
DecisionDe == [ c \in Textos |-> analizar_consulta(c) ]

-----------------------------------------------------------------------------
(* AgenteGenerador: the Code Synthesizer.                                  *)

\* the characters a request text is hashed over
Alfabeto == " \"abcdefghijklmnopqrstuvwxyzABCDEFGHIJKLMNOPQRSTUVWXYZ"

Codigo(c) ==
    IF \E i \in 1..Len(Alfabeto) : SubSeq(Alfabeto, i, i) = c
    THEN CHOOSE i \in 1..Len(Alfabeto) : SubSeq(Alfabeto, i, i) = c
    ELSE 0

RECURSIVE Resumen(_, _, _)
\* a content digest of the exact text (upper and lower case differ), standing
\* for the MD5 digest: h <- (31 h + code) mod 16^6, character by character
Resumen(s, i, h) ==
    IF i > Len(s) THEN h
    ELSE Resumen(s, i + 1, (31 * h + Codigo(SubSeq(s, i, i))) % 16777216)

RECURSIVE Hex(_, _)
\* n written with `ancho` hexadecimal digits
Hex(n, ancho) ==
    IF ancho = 0 THEN ""
    ELSE Hex(n \div 16, ancho - 1) \o SubSeq("0123456789abcdef", (n % 16) + 1, (n % 16) + 1)

\* hashlib.md5(consulta.encode()).hexdigest()[:8]
hash_consulta(consulta) == Hex(Resumen(consulta, 1, 7), 8)

\* a derivation that numbers the names by the request counter instead of
\* digesting the text
_generar_nombre_con_contador(consulta) ==
    LET palabras    == Primeros(Split(Lower(consulta)), 3)
        nombre_base == Join(palabras, "_")
    IN  "get_" \o nombre_base \o "_" \o Hex(consultas_procesadas, 8)

_generar_nombre_herramienta(consulta) ==
    LET palabras    == Primeros(Split(Lower(consulta)), 3)
        nombre_base == Join(palabras, "_")
    IN  "get_" \o nombre_base \o "_" \o hash_consulta(consulta)


\* the name derived for each request of the model
NombreDe == [ c \in Textos |-> _generar_nombre_herramienta(c) ]

(* A code text is kept by what the synthesizer does with it:               *)
(*   clase "None"             no code (Python's None)                      *)
(*         "vacio"            the empty string                             *)
(*         "no_compila"       provider code on which exec raises           *)
(*         "def_get"          provider code defining a function get_...    *)
(*         "def_otra"         provider code defining no get_... function   *)
(*         "fallback_generic" the generic template, with `consulta` pasted *)
(*                            into the string literal of its return        *)
CodigoNone == [ clase |-> "None", consulta |-> "" ]

(* What the provider call of _generar_codigo_con_ia does: it raises (the   *)
(* import, the configuration or generate_content fails or times out), or   *)
(* it answers a text, kept as the matches re.findall finds in it for each  *)
(* of the three patterns of _extraer_codigo_python.                        *)
RespuestaFalla == [ falla |-> TRUE, python |-> << >>, bloque |-> << >>, def |-> << >> ]

Texto(python, bloque, def) ==
    [ falla |-> FALSE, python |-> python, bloque |-> bloque, def |-> def ]

Cod(c) == [ clase |-> c, consulta |-> "" ]

Respuestas ==
    { RespuestaFalla,
      \* prose only
      Texto(<< >>, << >>, << >>),
      \* a ```python fence around a get_ function
      Texto(<< Cod("def_get") >>, << Cod("def_get") >>, << Cod("def_get") >>),
      \* an empty ```python fence
      Texto(<< Cod("vacio") >>, << Cod("vacio") >>, << >>),
      \* a bare fence around code that does not compile
      Texto(<< >>, << Cod("no_compila") >>, << >>),
      \* a raw def of a function with another name
      Texto(<< >>, << >>, << Cod("def_otra") >>) }

\* the provider as the Orchestrator's runs meet it
RespuestasSistema ==
    { RespuestaFalla,
      Texto(<< >>, << >>, << >>),
      Texto(<< Cod("def_get") >>, << Cod("def_get") >>, << Cod("def_get") >>) }

\* the first pattern with a match gives matches[0].strip()
_extraer_codigo_python(texto) ==
    IF Len(texto.python) > 0 THEN texto.python[1]
    ELSE IF Len(texto.bloque) > 0 THEN texto.bloque[1]
    ELSE IF Len(texto.def) > 0 THEN texto.def[1]
    ELSE CodigoNone

\* Python's truth value of an Optional[str]
EsVerdadero(codigo) == codigo.clase \notin { "None", "vacio" }

(* The templates are f-strings. The ldap_query template holds the field    *)
(* {len(resultado)}, evaluated when the template is built, where no        *)
(* `resultado` exists: building it raises NameError. The generic template  *)
(* pastes consulta between double quotes.                                  *)
_usar_template_fallback(consulta, tipo) ==
    IF tipo = "ldap_query"
    THEN [ lanza |-> TRUE, excepcion |-> "name 'resultado' is not defined",
           valor |-> CodigoNone ]
    ELSE [ lanza |-> FALSE, excepcion |-> "",
           valor |-> [ clase |-> "fallback_generic", consulta |-> consulta ] ]

_generar_codigo_con_ia(consulta, tipo, respuesta) ==
    IF respuesta.falla
    THEN _usar_template_fallback(consulta, tipo)
    ELSE LET codigo == _extraer_codigo_python(respuesta) IN
         [ lanza |-> FALSE, excepcion |-> "",
           valor |-> IF EsVerdadero(codigo) THEN codigo ELSE CodigoNone ]

\* exec(codigo, ...) returns; otherwise it raises (a SyntaxError)
Compila(codigo) ==
    CASE codigo.clase \in { "def_get", "def_otra" } -> TRUE
      [] codigo.clase = "fallback_generic" ->
            /\ ~ Contiene(codigo.consulta, "\"")
            /\ ~ Contiene(codigo.consulta, "\n")
      [] OTHER -> FALSE

(* A callable is kept by the code that runs when it is called: a tool of   *)
(* tools_base ("tool"), a compiled get_ function ("def_get", or the        *)
(* template's "fallback_generic"), funcion_wrapper ("wrapper"), a callable *)
(* handed in by a caller of the Invoker ("mock"), or None.                 *)
FuncionNone == [ clase |-> "None", ref |-> "" ]

_crear_funcion_dinamica(codigo, consulta) ==
    IF ~ Compila(codigo) THEN FuncionNone
    ELSE IF codigo.clase \in { "def_get", "fallback_generic" }
         THEN [ clase |-> codigo.clase, ref |-> codigo.consulta ]
         ELSE [ clase |-> "wrapper", ref |-> consulta ]

generar_herramienta(consulta, tipo, respuesta) ==
    IF ~ api_key
    THEN [ error |-> TRUE, mensaje |-> "API key de Gemini no configurada" ]
    ELSE LET r == _generar_codigo_con_ia(consulta, tipo, respuesta) IN
         IF r.lanza
         THEN [ error |-> TRUE, mensaje |-> "Error en generación: " \o r.excepcion ]
         ELSE IF ~ EsVerdadero(r.valor)
         THEN [ error |-> TRUE, mensaje |-> "No se pudo generar código para la consulta" ]
         ELSE LET funcion_generada == _crear_funcion_dinamica(r.valor, consulta) IN
              IF funcion_generada # FuncionNone
              THEN [ error |-> FALSE,
                     nombre |-> NombreDe[consulta],
                     funcion |-> funcion_generada,
                     codigo |-> r.valor,
                     tipo |-> tipo,
                     consulta_original |-> consulta ]
              ELSE [ error |-> TRUE, mensaje |-> "Error creando función dinámica" ]


-----------------------------------------------------------------------------
(* Python dicts as functions.                                              *)

\* d[k] = v
Poner(d, k, v) == [ x \in (DOMAIN d) \cup {k} |-> IF x = k THEN v ELSE d[x] ]

\* del d[k]
Quitar(d, k) == [ x \in (DOMAIN d) \ {k} |-> d[x] ]

\* {}
Vacio == << >>

-----------------------------------------------------------------------------
(* AgenteEjecutor: the Capability Invoker. Its operators take the state of *)
(* the object, ej = [herramientas, herramientas_generadas], and give the   *)
(* new state and the value returned.                                       *)

\* _inicializar_herramientas_base: every builtin name with its tools_base function
herramientas_base ==
    [ n \in { "get_current_user_info", "get_user_groups", "reset_system",
              "list_all_users", "search_users_by_department",
              "analyze_ldap_structure" }
        |-> [ clase |-> "tool", ref |-> n ] ]

\* the keyword parameters a callable accepts, and those it requires
Acepta(funcion) ==
    CASE funcion.clase = "tool" /\ funcion.ref = "get_user_groups" -> { "username" }
      [] funcion.clase = "tool" /\ funcion.ref = "search_users_by_department" -> { "department" }
      [] OTHER -> {}

Requiere(funcion) ==
    IF funcion.clase = "tool" /\ funcion.ref = "search_users_by_department"
    THEN { "department" } ELSE {}

(* Calling funcion with kwargs raises: a TypeError when they do not fit the *)
(* signature; the tools of tools_base and funcion_wrapper catch whatever   *)
(* their body raises and the generic template only returns a string; any   *)
(* other callable raises when its body does (falla).                       *)
Lanza(funcion, kwargs, falla) ==
    \/ ~ (kwargs \subseteq Acepta(funcion))
    \/ ~ (Requiere(funcion) \subseteq kwargs)
    \/ /\ funcion.clase \in { "def_get", "mock" }
       /\ falla

\* an invoke that reports success whatever the callable does
ejecutar_herramienta_ignora_fallo(ej, nombre, kwargs, falla) ==
    IF nombre \notin DOMAIN ej.herramientas
    THEN [ error |-> TRUE,
           mensaje |-> "Herramienta '" \o nombre \o "' no encontrada",
           herramientas_disponibles |-> DOMAIN ej.herramientas ]
    ELSE [ error |-> FALSE,
           herramienta |-> nombre,
           resultado |-> ej.herramientas[nombre],
           tipo |-> IF nombre \in DOMAIN herramientas_base THEN "base" ELSE "generada" ]

ejecutar_herramienta(ej, nombre, kwargs, falla) ==
    IF nombre \notin DOMAIN ej.herramientas
    THEN [ error |-> TRUE,
           mensaje |-> "Herramienta '" \o nombre \o "' no encontrada",
           herramientas_disponibles |-> DOMAIN ej.herramientas ]
    ELSE IF Lanza(ej.herramientas[nombre], kwargs, falla)
    THEN [ error |-> TRUE,
           mensaje |-> "Error ejecutando " \o nombre,
           herramienta |-> nombre ]
    ELSE [ error |-> FALSE,
           herramienta |-> nombre,
           resultado |-> ej.herramientas[nombre],
           tipo |-> IF nombre \in DOMAIN herramientas_base THEN "base" ELSE "generada" ]

\* a registration that keeps the callable a name already has
agregar_herramienta_generada_conserva(ej, nombre, funcion) ==
    IF nombre \in DOMAIN ej.herramientas
    THEN [ herramientas_generadas |->
               Poner(ej.herramientas_generadas, nombre, ej.herramientas[nombre]),
           herramientas |-> ej.herramientas ]
    ELSE [ herramientas_generadas |-> Poner(ej.herramientas_generadas, nombre, funcion),
           herramientas |-> Poner(ej.herramientas, nombre, funcion) ]

agregar_herramienta_generada(ej, nombre, funcion) ==
    [ herramientas_generadas |-> Poner(ej.herramientas_generadas, nombre, funcion),
      herramientas |-> Poner(ej.herramientas, nombre, funcion) ]

\* the object after the call; the call returns RemoverRetorna
remover_herramienta_generada(ej, nombre) ==
    IF nombre \in DOMAIN ej.herramientas_generadas
    THEN [ herramientas_generadas |-> Quitar(ej.herramientas_generadas, nombre),
           herramientas |-> Quitar(ej.herramientas, nombre) ]
    ELSE ej

RemoverRetorna(ej, nombre) == nombre \in DOMAIN ej.herramientas_generadas

RECURSIVE RemoverTodas(_, _)
\* for nombre in herramientas_removidas: self.remover_herramienta_generada(nombre)
RemoverTodas(ej, nombres) ==
    IF nombres = {} THEN ej
    ELSE LET nombre == CHOOSE n \in nombres : TRUE IN
         RemoverTodas(remover_herramienta_generada(ej, nombre), nombres \ {nombre})

\* the object after the call; the call returns ResetRetorna
reset_herramientas_generadas(ej) ==
    RemoverTodas(ej, DOMAIN ej.herramientas_generadas)

\* return len(herramientas_removidas)
ResetRetorna(ej) == Cardinality(DOMAIN ej.herramientas_generadas)

\* the AgenteEjecutor of the current state
Ejecutor ==
    [ herramientas |-> herramientas, herramientas_generadas |-> herramientas_generadas ]

-----------------------------------------------------------------------------
(* RegistryTools: the Capability Catalog, and its durable store.           *)
(* Timestamps are kept by their presence only (fecha_desregistro,          *)
(* ultimo_uso); an audit record keeps its action and its name.             *)

ArchivoAusente ==
    [ existe |-> FALSE, json |-> FALSE, herramientas |-> Vacio, historial |-> << >> ]

\* what open(archivo, 'w') followed by json.dump can do to the store
Escrituras == { "ok", "falla_open", "falla_dump" }

(* guardar_registro: the whole document is rewritten; open can fail and    *)
(* leave the store as it was, json.dump can fail after open has truncated  *)
(* the file. Both are caught inside guardar_registro.                      *)
\* a save that rewrites the entries and leaves the stored audit list as it was
guardar_registro_sin_historial(reg, arch, escritura) ==
    CASE escritura = "ok" ->
            [ existe |-> TRUE, json |-> TRUE,
              herramientas |-> reg.herramientas_registradas,
              historial |-> arch.historial ]
      [] escritura = "falla_open" -> arch
      [] OTHER ->
            [ existe |-> TRUE, json |-> FALSE, herramientas |-> Vacio, historial |-> << >> ]

guardar_registro(reg, arch, escritura) ==
    CASE escritura = "ok" ->
            [ existe |-> TRUE, json |-> TRUE,
              herramientas |-> reg.herramientas_registradas,
              historial |-> reg.historial_herramientas ]
      [] escritura = "falla_open" -> arch
      [] OTHER ->
            [ existe |-> TRUE, json |-> FALSE, herramientas |-> Vacio, historial |-> << >> ]

\* RegistryTools.__init__ and cargar_registro: the object loaded from the store
cargar_registro(arch) ==
    IF arch.existe /\ arch.json
    THEN [ herramientas_registradas |-> arch.herramientas,
           historial_herramientas |-> arch.historial ]
    ELSE [ herramientas_registradas |-> Vacio, historial_herramientas |-> << >> ]

\* a registration that starts the audit trail over
registrar_herramienta_reescribe(reg, nombre, metadata) ==
    [ herramientas_registradas |->
          Poner(reg.herramientas_registradas, nombre,
                [ tipo |-> metadata.tipo,
                  consulta_original |-> metadata.consulta_original,
                  codigo_generado |-> metadata.codigo_generado,
                  estado |-> "activa",
                  uso_count |-> 0,
                  fecha_desregistro |-> FALSE,
                  ultimo_uso |-> FALSE ]),
      historial_herramientas |-> << [ accion |-> "registro", herramienta |-> nombre ] >> ]

\* the object after registrar_herramienta, before guardar_registro
registrar_herramienta(reg, nombre, metadata) ==
    [ herramientas_registradas |->
          Poner(reg.herramientas_registradas, nombre,
                [ tipo |-> metadata.tipo,
                  consulta_original |-> metadata.consulta_original,
                  codigo_generado |-> metadata.codigo_generado,
                  estado |-> "activa",
                  uso_count |-> 0,
                  fecha_desregistro |-> FALSE,
                  ultimo_uso |-> FALSE ]),
      historial_herramientas |->
          Append(reg.historial_herramientas,
                 [ accion |-> "registro", herramienta |-> nombre ]) ]

\* a retirement that erases the entry
desregistrar_herramienta_borra(reg, nombre) ==
    IF nombre \in DOMAIN reg.herramientas_registradas
    THEN [ herramientas_registradas |-> Quitar(reg.herramientas_registradas, nombre),
           historial_herramientas |->
               Append(reg.historial_herramientas,
                      [ accion |-> "desregistro", herramienta |-> nombre ]) ]
    ELSE reg

\* the object after desregistrar_herramienta, before guardar_registro
desregistrar_herramienta(reg, nombre) ==
    IF nombre \in DOMAIN reg.herramientas_registradas
    THEN [ herramientas_registradas |->
               [ reg.herramientas_registradas EXCEPT
                   ![nombre].estado = "inactiva",
                   ![nombre].fecha_desregistro = TRUE ],
           historial_herramientas |->
               Append(reg.historial_herramientas,
                      [ accion |-> "desregistro", herramienta |-> nombre ]) ]
    ELSE reg

incrementar_uso(reg, nombre) ==
    IF nombre \in DOMAIN reg.herramientas_registradas
    THEN [ reg EXCEPT !.herramientas_registradas[nombre].uso_count = @ + 1,
                      !.herramientas_registradas[nombre].ultimo_uso = TRUE ]
    ELSE reg

\* listar_herramientas(filtro_estado)['herramientas'], filtro "" for no filter
listar_herramientas(reg, filtro_estado) ==
    IF filtro_estado # ""
    THEN [ n \in { m \in DOMAIN reg.herramientas_registradas :
                     reg.herramientas_registradas[m].estado = filtro_estado }
             |-> reg.herramientas_registradas[n] ]
    ELSE reg.herramientas_registradas

\* the RegistryTools of the current state
Registry ==
    [ herramientas_registradas |-> herramientas_registradas,
      historial_herramientas |-> historial_herramientas ]


-----------------------------------------------------------------------------
(* AgenteOfensivo.                                                         *)

\* _inicializar_herramientas_ofensivas: the names of the offensive mapping
herramientas_ofensivas == { "tool_rootdse_info", "tool_anonymous_enum" }

\* AgenteOfensivo.ejecutar_herramienta_ofensiva(nombre); falla: the tool raises
ofensivo_ejecutar_herramienta_ofensiva(nombre, falla) ==
    IF nombre \notin herramientas_ofensivas
    THEN [ error |-> TRUE,
           mensaje |-> "Herramienta ofensiva '" \o nombre \o "' no encontrada",
           herramientas_disponibles |-> herramientas_ofensivas ]
    ELSE IF falla
    THEN [ error |-> TRUE,
           mensaje |-> "Error ejecutando " \o nombre,
           herramienta |-> nombre ]
    ELSE [ error |-> FALSE,
           herramienta |-> nombre,
           resultado |-> [ clase |-> "ofensiva", ref |-> nombre ],
           tipo |-> "ofensiva" ]

-----------------------------------------------------------------------------
(* SistemaAgentes: the Orchestrator.                                       *)

DecisionNinguna == [ accion |-> "ninguna" ]

\* the history of derived names after `consulta` has yielded `nombre`
Derivado(consulta, nombre) ==
    [ nombres_derivados EXCEPT
        ![consulta] = [ nombres |-> @.nombres \cup { nombre },
                        veces |-> IF @.veces < 2 THEN @.veces + 1 ELSE @.veces ] ]

\* str(resultado), kept by the kind of outcome it prints
Str(resultado) ==
    IF "tipo" \in DOMAIN resultado THEN resultado.tipo ELSE "error"

\* AgenteCoordinador.registrar_consulta: the record appended to the history
RegistroConsulta(consulta, resultado) ==
    [ consulta |-> consulta, resultado |-> Str(resultado) ]

\* SistemaAgentes.__init__ on a first run: no store yet
Init ==
    /\ estado = "inicializado"
    /\ consultas_procesadas = 0
    /\ pc = "idle"
    /\ decision = DecisionNinguna
    /\ herramientas_disponibles = {}
    /\ historial_consultas = << >>
    /\ herramientas = herramientas_base
    /\ herramientas_generadas = Vacio
    /\ archivo = ArchivoAusente
    /\ herramientas_registradas = cargar_registro(ArchivoAusente).herramientas_registradas
    /\ historial_herramientas = cargar_registro(ArchivoAusente).historial_herramientas
    /\ api_key \in BOOLEAN
    /\ ret = [ op |-> "__init__" ]
    /\ nombres_derivados = [ c \in Textos |-> [ nombres |-> {}, veces |-> 0 ] ]

(* SistemaAgentes.__init__ in a later process (cli.py builds a new         *)
(* SistemaAgentes on every run): every object is new, and RegistryTools    *)
(* loads what the last process left in the store.                          *)
SistemaAgentes_init ==
    /\ pc = "idle"
    /\ estado' = "inicializado"
    /\ consultas_procesadas' = 0
    /\ decision' = DecisionNinguna
    /\ herramientas_disponibles' = {}
    /\ historial_consultas' = << >>
    /\ herramientas' = herramientas_base
    /\ herramientas_generadas' = Vacio
    /\ herramientas_registradas' = cargar_registro(archivo).herramientas_registradas
    /\ historial_herramientas' = cargar_registro(archivo).historial_herramientas
    /\ api_key' \in BOOLEAN
    /\ ret' = [ op |-> "__init__" ]
    /\ UNCHANGED << pc, archivo, nombres_derivados >>

(* analizar_consulta on a request that is no str (None): consulta.lower()  *)
(* raises AttributeError, the one exception that reaches the except branch *)
(* of procesar_consulta; every later step catches what it raises.          *)
DecisionLanza ==
    [ accion |-> "lanza", consulta |-> None,
      excepcion |-> "'NoneType' object has no attribute 'lower'" ]

\* a start of procesar_consulta that keeps the estado "error" of the last request
procesar_consulta_inicio_conserva_error(consulta) ==
    /\ pc = "idle"
    /\ consultas_procesadas < MaxConsultas
    /\ Len(historial_herramientas) < MaxHistorial
    /\ estado' = IF estado = "error" THEN "error" ELSE "procesando"
    /\ consultas_procesadas' = consultas_procesadas + 1
    /\ decision' = IF consulta = None THEN DecisionLanza ELSE DecisionDe[consulta]
    /\ pc' = "procesando"
    /\ UNCHANGED << herramientas_disponibles, historial_consultas, herramientas,
                    herramientas_generadas, herramientas_registradas,
                    historial_herramientas, archivo, api_key, ret, nombres_derivados >>

\* procesar_consulta, lines 73-82: up to the coordinator's decision
procesar_consulta_inicio(consulta) ==
    /\ pc = "idle"
    /\ consultas_procesadas < MaxConsultas
    /\ Len(historial_herramientas) < MaxHistorial
    /\ estado' = "procesando"
    /\ consultas_procesadas' = consultas_procesadas + 1
    /\ decision' = IF consulta = None THEN DecisionLanza ELSE DecisionDe[consulta]
    /\ pc' = "procesando"
    /\ UNCHANGED << herramientas_disponibles, historial_consultas, herramientas,
                    herramientas_generadas, herramientas_registradas,
                    historial_herramientas, archivo, api_key, ret, nombres_derivados >>

\* procesar_consulta, lines 100-105: record the request, become listo, return;
\* ret keeps, beside the dict returned, the calls to the agents the request
\* made, in the order of the source (llamadas)
Termina(historial, resultado, llamadas) ==
    /\ historial_consultas' =
           Append(historial, RegistroConsulta(decision.consulta, resultado))
    /\ estado' = "listo"
    /\ pc' = "idle"
    /\ decision' = DecisionNinguna
    /\ ret' = [ op |-> "procesar_consulta", consulta |-> decision.consulta,
                resultado |-> resultado, llamadas |-> llamadas ]

\* an except branch that returns and leaves estado as it was
procesar_consulta_error_atascado ==
    /\ pc = "procesando"
    /\ decision.accion = "lanza"
    /\ pc' = "idle"
    /\ decision' = DecisionNinguna
    /\ ret' = [ op |-> "procesar_consulta", consulta |-> decision.consulta,
                resultado |-> [ error |-> TRUE,
                                mensaje |-> "Error procesando consulta: "
                                            \o decision.excepcion,
                                consulta |-> decision.consulta ] ]
    /\ UNCHANGED << estado, consultas_procesadas, herramientas_disponibles,
                    historial_consultas, herramientas, herramientas_generadas,
                    herramientas_registradas, historial_herramientas, archivo,
                    api_key, nombres_derivados >>

\* procesar_consulta, lines 107-116: the except branch
procesar_consulta_error ==
    /\ pc = "procesando"
    /\ decision.accion = "lanza"
    /\ estado' = "error"
    /\ pc' = "idle"
    /\ decision' = DecisionNinguna
    /\ ret' = [ op |-> "procesar_consulta", consulta |-> decision.consulta,
                resultado |-> [ error |-> TRUE,
                                mensaje |-> "Error procesando consulta: "
                                            \o decision.excepcion,
                                consulta |-> decision.consulta ] ]
    /\ UNCHANGED << consultas_procesadas, herramientas_disponibles, historial_consultas,
                    herramientas, herramientas_generadas, herramientas_registradas,
                    historial_herramientas, archivo, api_key, nombres_derivados >>

EsOfensiva(nombre) ==
    nombre \in { "tool_rootdse_info", "tool_anonymous_enum", "tool_starttls_test" }

\* the route through SistemaAgentes.ejecutar_herramienta_ofensiva
procesar_consulta_ofensiva(falla) ==
    /\ pc = "procesando"
    /\ decision.accion = "ejecutar"
    /\ EsOfensiva(decision.herramienta)
    /\ LET nombre == decision.herramienta
           resultado == ofensivo_ejecutar_herramienta_ofensiva(nombre, falla)
       IN  Termina(Append(historial_consultas,
                          RegistroConsulta("herramienta_ofensiva:" \o nombre, resultado)),
                   resultado,
                   << "ofensivo.ejecutar_herramienta_ofensiva" >>)
    /\ UNCHANGED << consultas_procesadas, herramientas_disponibles, herramientas,
                    herramientas_generadas, herramientas_registradas,
                    historial_herramientas, archivo, api_key, nombres_derivados >>

\* a builtin route on which reset_system empties the Invoker's synthesized
\* capabilities
procesar_consulta_existente_resetea(falla) ==
    /\ pc = "procesando"
    /\ decision.accion = "ejecutar"
    /\ ~ EsOfensiva(decision.herramienta)
    /\ LET nombre_herramienta == decision.herramienta
           resultado == ejecutar_herramienta(Ejecutor, nombre_herramienta, {}, falla)
           reg == IF ~ resultado.error
                  THEN incrementar_uso(Registry, nombre_herramienta)
                  ELSE Registry
           ej == IF nombre_herramienta = "reset_system" /\ ~ resultado.error
                 THEN reset_herramientas_generadas(Ejecutor)
                 ELSE Ejecutor
       IN  /\ herramientas_registradas' = reg.herramientas_registradas
           /\ historial_herramientas' = reg.historial_herramientas
           /\ herramientas' = ej.herramientas
           /\ herramientas_generadas' = ej.herramientas_generadas
           /\ Termina(historial_consultas,
                      [ tipo |-> "herramienta_existente",
                        herramienta |-> nombre_herramienta,
                        resultado |-> resultado,
                        decision |-> decision ],
                      IF ~ resultado.error
                      THEN << "ejecutor.ejecutar_herramienta", "registry.incrementar_uso" >>
                      ELSE << "ejecutor.ejecutar_herramienta" >>)
    /\ UNCHANGED << consultas_procesadas, herramientas_disponibles, archivo, api_key,
                    nombres_derivados >>

\* the route through _ejecutar_herramienta_existente
procesar_consulta_existente(falla) ==
    /\ pc = "procesando"
    /\ decision.accion = "ejecutar"
    /\ ~ EsOfensiva(decision.herramienta)
    /\ LET nombre_herramienta == decision.herramienta
           resultado == ejecutar_herramienta(Ejecutor, nombre_herramienta, {}, falla)
           reg == IF ~ resultado.error
                  THEN incrementar_uso(Registry, nombre_herramienta)
                  ELSE Registry
       IN  /\ herramientas_registradas' = reg.herramientas_registradas
           /\ historial_herramientas' = reg.historial_herramientas
           /\ Termina(historial_consultas,
                      [ tipo |-> "herramienta_existente",
                        herramienta |-> nombre_herramienta,
                        resultado |-> resultado,
                        decision |-> decision ],
                      IF ~ resultado.error
                      THEN << "ejecutor.ejecutar_herramienta", "registry.incrementar_uso" >>
                      ELSE << "ejecutor.ejecutar_herramienta" >>)
    /\ UNCHANGED << consultas_procesadas, herramientas_disponibles, herramientas,
                    herramientas_generadas, archivo, api_key, nombres_derivados >>

\* a failed synthesis after which the classifier learns the name all the same
procesar_consulta_generar_aprende_nombre(respuesta, falla, escritura) ==
    /\ pc = "procesando"
    /\ decision.accion = "generar"
    /\ LET resultado_generacion ==
               generar_herramienta(decision.consulta, decision.tipo_herramienta, respuesta)
       IN  /\ resultado_generacion.error
           /\ Termina(historial_consultas,
                      [ tipo |-> "error_generacion",
                        error |-> TRUE,
                        mensaje |-> resultado_generacion.mensaje,
                        decision |-> decision ],
                      << "generador.generar_herramienta" >>)
    /\ herramientas_disponibles' = herramientas_disponibles \cup { NombreDe[decision.consulta] }
    /\ UNCHANGED << consultas_procesadas, api_key, herramientas, herramientas_generadas,
                    herramientas_registradas, historial_herramientas, archivo,
                    nombres_derivados >>

\* a synthesize route that invokes the capability before it installs it
procesar_consulta_generar_invoca_antes(respuesta, falla, escritura) ==
    /\ pc = "procesando"
    /\ decision.accion = "generar"
    /\ LET consulta == decision.consulta
           tipo == decision.tipo_herramienta
           resultado_generacion == generar_herramienta(consulta, tipo, respuesta)
       IN  IF resultado_generacion.error
           THEN /\ Termina(historial_consultas,
                           [ tipo |-> "error_generacion",
                             error |-> TRUE,
                             mensaje |-> resultado_generacion.mensaje,
                             decision |-> decision ],
                           << "generador.generar_herramienta" >>)
                /\ UNCHANGED << herramientas_disponibles, herramientas,
                                herramientas_generadas, herramientas_registradas,
                                historial_herramientas, archivo, nombres_derivados >>
           ELSE LET nombre_herramienta == resultado_generacion.nombre
                    resultado_ejecucion ==
                        ejecutar_herramienta(Ejecutor, nombre_herramienta, {}, falla)
                    ej == agregar_herramienta_generada(Ejecutor, nombre_herramienta,
                                                       resultado_generacion.funcion)
                    metadata == [ tipo |-> tipo,
                                  consulta_original |-> consulta,
                                  codigo_generado |-> resultado_generacion.codigo ]
                    reg == registrar_herramienta(Registry, nombre_herramienta, metadata)
                IN  /\ herramientas' = ej.herramientas
                    /\ herramientas_generadas' = ej.herramientas_generadas
                    /\ herramientas_registradas' = reg.herramientas_registradas
                    /\ historial_herramientas' = reg.historial_herramientas
                    /\ archivo' = guardar_registro(reg, archivo, escritura)
                    /\ herramientas_disponibles' =
                           herramientas_disponibles \cup { nombre_herramienta }
                    /\ nombres_derivados' = Derivado(consulta, nombre_herramienta)
                    /\ Termina(historial_consultas,
                               [ tipo |-> "herramienta_generada",
                                 herramienta |-> nombre_herramienta,
                                 resultado_generacion |-> resultado_generacion,
                                 resultado_ejecucion |-> resultado_ejecucion,
                                 decision |-> decision ],
                               << "generador.generar_herramienta",
                                  "ejecutor.ejecutar_herramienta",
                                  "ejecutor.agregar_herramienta_generada",
                                  "registry.registrar_herramienta",
                                  "coordinador.registrar_herramienta" >>)
    /\ UNCHANGED << consultas_procesadas, api_key >>

\* the route through _generar_y_ejecutar_herramienta
procesar_consulta_generar(respuesta, falla, escritura) ==
    /\ pc = "procesando"
    /\ decision.accion = "generar"
    /\ LET consulta == decision.consulta
           tipo == decision.tipo_herramienta
           resultado_generacion == generar_herramienta(consulta, tipo, respuesta)
       IN  IF resultado_generacion.error
           THEN /\ Termina(historial_consultas,
                           [ tipo |-> "error_generacion",
                             error |-> TRUE,
                             mensaje |-> resultado_generacion.mensaje,
                             decision |-> decision ],
                           << "generador.generar_herramienta" >>)
                /\ UNCHANGED << herramientas_disponibles, herramientas,
                                herramientas_generadas, herramientas_registradas,
                                historial_herramientas, archivo, nombres_derivados >>
           ELSE LET nombre_herramienta == resultado_generacion.nombre
                    ej == agregar_herramienta_generada(Ejecutor, nombre_herramienta,
                                                       resultado_generacion.funcion)
                    metadata == [ tipo |-> tipo,
                                  consulta_original |-> consulta,
                                  codigo_generado |-> resultado_generacion.codigo ]
                    reg == registrar_herramienta(Registry, nombre_herramienta, metadata)
                    resultado_ejecucion ==
                        ejecutar_herramienta(ej, nombre_herramienta, {}, falla)
                IN  /\ herramientas' = ej.herramientas
                    /\ herramientas_generadas' = ej.herramientas_generadas
                    /\ herramientas_registradas' = reg.herramientas_registradas
                    /\ historial_herramientas' = reg.historial_herramientas
                    /\ archivo' = guardar_registro(reg, archivo, escritura)
                    /\ herramientas_disponibles' =
                           herramientas_disponibles \cup { nombre_herramienta }
                    /\ nombres_derivados' = Derivado(consulta, nombre_herramienta)
                    /\ Termina(historial_consultas,
                               [ tipo |-> "herramienta_generada",
                                 herramienta |-> nombre_herramienta,
                                 resultado_generacion |-> resultado_generacion,
                                 resultado_ejecucion |-> resultado_ejecucion,
                                 decision |-> decision ],
                               << "generador.generar_herramienta",
                                  "ejecutor.agregar_herramienta_generada",
                                  "registry.registrar_herramienta",
                                  "coordinador.registrar_herramienta",
                                  "ejecutor.ejecutar_herramienta" >>)
    /\ UNCHANGED << consultas_procesadas, api_key >>

(* reset_sistema. RegistryTools.reset_completo empties the two in-memory   *)
(* collections and then removes the store if it exists; os.remove can      *)
(* raise (borrado = "falla"), which reset_completo does not catch and      *)
(* reset_sistema does. ret keeps, beside the dict returned, the names the  *)
(* Invoker held as synthesized when the call began (generadas).            *)
reset_sistema(borrado) ==
    /\ pc = "idle"
    /\ LET herramientas_removidas == ResetRetorna(Ejecutor)
           ej == reset_herramientas_generadas(Ejecutor)
           lanza == archivo.existe /\ borrado = "falla"
       IN  /\ herramientas' = ej.herramientas
           /\ herramientas_generadas' = ej.herramientas_generadas
           /\ herramientas_registradas' = Vacio
           /\ historial_herramientas' = << >>
           /\ IF lanza
              THEN /\ ret' = [ op |-> "reset_sistema",
                               generadas |-> DOMAIN herramientas_generadas,
                               resultado |-> [ error |-> TRUE,
                                               mensaje |-> "Error en reset" ] ]
                   /\ UNCHANGED << archivo, herramientas_disponibles,
                                   historial_consultas, estado, consultas_procesadas >>
              ELSE /\ archivo' = ArchivoAusente
                   /\ herramientas_disponibles' = {}
                   /\ historial_consultas' = << >>
                   /\ estado' = "inicializado"
                   /\ consultas_procesadas' = 0
                   /\ ret' = [ op |-> "reset_sistema",
                               generadas |-> DOMAIN herramientas_generadas,
                               resultado |->
                                   [ error |-> FALSE,
                                     mensaje |-> "Sistema reseteado",
                                     herramientas_removidas |-> herramientas_removidas ] ]
    /\ UNCHANGED << pc, decision, api_key, nombres_derivados >>

Next ==
    \/ \E consulta \in Consultas \cup { None } : procesar_consulta_inicio(consulta)
    \/ procesar_consulta_error
    \/ \E falla \in BOOLEAN : procesar_consulta_ofensiva(falla)
    \/ \E falla \in BOOLEAN : procesar_consulta_existente(falla)
    \/ \E respuesta \in RespuestasSistema, falla \in BOOLEAN, escritura \in Escrituras :
           procesar_consulta_generar(respuesta, falla, escritura)
    \/ \E borrado \in { "ok", "falla" } : reset_sistema(borrado)
    \/ SistemaAgentes_init

Spec == Init /\ [][Next]_vars

\* the steps that bring an accepted request to its return
procesar_consulta_ruta ==
    \/ procesar_consulta_error
    \/ \E falla \in BOOLEAN : procesar_consulta_ofensiva(falla)
    \/ \E falla \in BOOLEAN : procesar_consulta_existente(falla)
    \/ \E respuesta \in RespuestasSistema, falla \in BOOLEAN, escritura \in Escrituras :
           procesar_consulta_generar(respuesta, falla, escritura)

(* procesar_consulta is one synchronous call on one thread: once begun it  *)
(* goes on to its return as long as the provider call and the capability   *)
(* it invokes return or raise. Nothing obliges a caller to send a request, *)
(* to reset or to start a new process.                                     *)
SpecJusto == Spec /\ WF_vars(procesar_consulta_ruta)


-----------------------------------------------------------------------------
(* The Invoker called directly, with any name, beside the Catalog's        *)
(* register.                                                               *)

NombresAPI == { "get_current_user_info", "get_x_ab12cd34", "nueva_herramienta" }

\* the callables handed to agregar_herramienta_generada
Funciones == { [ clase |-> "mock", ref |-> "f1" ], [ clase |-> "mock", ref |-> "f2" ] }

Metadatos ==
    { [ tipo |-> "generic_query", consulta_original |-> "x",
        codigo_generado |-> Cod("def_get") ] }

Sistema == << estado, consultas_procesadas, pc, decision, herramientas_disponibles,
              historial_consultas, api_key, nombres_derivados >>

Catalogo == << herramientas_registradas, historial_herramientas, archivo >>

ejecutor_agregar_herramienta_generada(nombre, funcion) ==
    /\ LET ej == agregar_herramienta_generada(Ejecutor, nombre, funcion) IN
       /\ herramientas' = ej.herramientas
       /\ herramientas_generadas' = ej.herramientas_generadas
    /\ ret' = [ op |-> "agregar_herramienta_generada", nombre |-> nombre, valor |-> TRUE ]
    /\ UNCHANGED << Sistema, Catalogo >>

ejecutor_remover_herramienta_generada(nombre) ==
    /\ LET ej == remover_herramienta_generada(Ejecutor, nombre) IN
       /\ herramientas' = ej.herramientas
       /\ herramientas_generadas' = ej.herramientas_generadas
    /\ ret' = [ op |-> "remover_herramienta_generada", nombre |-> nombre,
                valor |-> RemoverRetorna(Ejecutor, nombre) ]
    /\ UNCHANGED << Sistema, Catalogo >>

ejecutor_reset_herramientas_generadas ==
    /\ LET ej == reset_herramientas_generadas(Ejecutor) IN
       /\ herramientas' = ej.herramientas
       /\ herramientas_generadas' = ej.herramientas_generadas
    /\ ret' = [ op |-> "reset_herramientas_generadas", tipo |-> "int",
                valor |-> ResetRetorna(Ejecutor) ]
    /\ UNCHANGED << Sistema, Catalogo >>

ejecutor_ejecutar_herramienta(nombre, kwargs, falla) ==
    /\ ret' = [ op |-> "ejecutar_herramienta", nombre |-> nombre,
                resultado |-> ejecutar_herramienta(Ejecutor, nombre, kwargs, falla) ]
    /\ UNCHANGED << Sistema, Catalogo, herramientas, herramientas_generadas >>

\* RegistryTools.registrar_herramienta, with the guardar_registro it ends with
registry_registrar_herramienta(nombre, metadata, escritura) ==
    /\ Len(historial_herramientas) < MaxHistorial
    /\ LET reg == registrar_herramienta(Registry, nombre, metadata) IN
       /\ herramientas_registradas' = reg.herramientas_registradas
       /\ historial_herramientas' = reg.historial_herramientas
       /\ archivo' = guardar_registro(reg, archivo, escritura)
    /\ ret' = [ op |-> "registrar_herramienta", nombre |-> nombre, valor |-> TRUE ]
    /\ UNCHANGED << Sistema, herramientas, herramientas_generadas >>

NextEjecutor ==
    \/ \E nombre \in NombresAPI, funcion \in Funciones :
           ejecutor_agregar_herramienta_generada(nombre, funcion)
    \/ \E nombre \in NombresAPI : ejecutor_remover_herramienta_generada(nombre)
    \/ ejecutor_reset_herramientas_generadas
    \/ \E nombre \in NombresAPI, kwargs \in { {}, { "department" } }, falla \in BOOLEAN :
           ejecutor_ejecutar_herramienta(nombre, kwargs, falla)
    \/ \E nombre \in NombresAPI, metadata \in Metadatos :
           registry_registrar_herramienta(nombre, metadata, "ok")

SpecEjecutor == Init /\ [][NextEjecutor]_vars

-----------------------------------------------------------------------------
(* The Synthesizer called directly, with any request text and category.    *)

generador_generar_herramienta(consulta, tipo, respuesta) ==
    /\ ret' = [ op |-> "generar_herramienta", consulta |-> consulta, tipo |-> tipo,
                respuesta |-> respuesta,
                resultado |-> generar_herramienta(consulta, tipo, respuesta) ]
    /\ UNCHANGED << Sistema, Catalogo, herramientas, herramientas_generadas >>

NextGenerador ==
    \E consulta \in Textos, tipo \in { "ldap_query", "generic_query" },
       respuesta \in Respuestas :
        generador_generar_herramienta(consulta, tipo, respuesta)

SpecGenerador == Init /\ [][NextGenerador]_vars

-----------------------------------------------------------------------------
(* The Classifier called directly. A request is made of two phrases; each  *)
(* phrase is listed with the branch of _identificar_herramienta that holds *)
(* one of its triggers (fila, 0 for none), whether _puede_responder_       *)
(* directamente knows it (conocida), and whether it holds one of the words *)
(* of _determinar_tipo_herramienta (clave), all three for the phrase as    *)
(* written; mayusculas is the text that str.lower() makes of its upper     *)
(* case.                                                                   *)

Frase(texto, fila, conocida, clave, mayusculas) ==
    [ texto |-> texto, fila |-> fila, conocida |-> conocida, clave |-> clave,
      mayusculas |-> mayusculas ]

Frases ==
    { Frase("who am i", 1, TRUE, FALSE, "who am i"),
      Frase("quién soy", 1, TRUE, FALSE, "quién soy"),
      Frase("que grupos tengo", 2, TRUE, TRUE, "que grupos tengo"),
      Frase("que grupos", 2, FALSE, TRUE, "que grupos"),
      Frase("reset", 3, TRUE, FALSE, "reset"),
      Frase("listar usuarios", 4, TRUE, TRUE, "listar usuarios"),
      Frase("buscar usuarios", 5, TRUE, TRUE, "buscar usuarios"),
      Frase("estructura ldap", 6, TRUE, FALSE, "estructura ldap"),
      Frase("rootdse", 7, TRUE, FALSE, "rootdse"),
      Frase("bind anónimo", 8, TRUE, FALSE, "bind anónimo"),
      Frase("starttls", 9, TRUE, FALSE, "starttls"),
      Frase("departamento", 0, FALSE, TRUE, "departamento"),
      Frase("users", 0, FALSE, TRUE, "users"),
      Frase("hola", 0, FALSE, FALSE, "hola"),
      Frase("who am " \o i_sin_punto, 0, FALSE, FALSE, "who am i") }

Formas == { "igual", "mayusculas", "titulo" }

\* the request text: the two phrases, as written, in upper case, or the first
\* in upper case only
Consulta(a, b, forma) ==
    CASE forma = "mayusculas" -> Upper(a.texto \o " " \o b.texto)
      [] forma = "titulo" -> Upper(a.texto) \o " " \o b.texto
      [] OTHER -> a.texto \o " " \o b.texto

\* the phrase the classifier reads at a position of the request: in upper
\* case, str.lower() gives back the text named by the field mayusculas
Leida(f, forma, posicion) ==
    IF forma = "mayusculas" \/ (forma = "titulo" /\ posicion = 1)
    THEN CHOOSE g \in Frases : g.texto = f.mayusculas
    ELSE f

\* analizar_consulta over these requests
DecisionClasificar ==
    [ a \in Frases |-> [ b \in Frases |-> [ forma \in Formas |->
          analizar_consulta(Consulta(a, b, forma)) ] ] ]

coordinador_analizar_consulta(a, b, forma) ==
    /\ ret' = [ op |-> "analizar_consulta", frases |-> << a, b >>, forma |-> forma,
                decision |-> DecisionClasificar[a][b][forma] ]
    /\ UNCHANGED << Sistema, Catalogo, herramientas, herramientas_generadas >>

NextCoordinador ==
    \E a \in Frases, b \in Frases, forma \in Formas :
        coordinador_analizar_consulta(a, b, forma)

SpecCoordinador == Init /\ [][NextCoordinador]_vars

-----------------------------------------------------------------------------
(* The Catalog called directly: RegistryTools on its store.                *)

NombresCatalogo == { "get_x_ab12cd34", "get_y_0f0f0f0f" }

\* a metadata argument that is no mapping (None)
MetadataNone == [ clase |-> "None" ]

\* the metadata handed to registrar_herramienta: a dict, or no mapping at all
MetadatosCatalogo == Metadatos \cup { MetadataNone }

\* RegistryTools.registrar_herramienta: {**metadata} raises for a metadata that
\* is no mapping, which the except branch turns into False before anything is
\* stored; otherwise the entry and the audit record are stored, guardar_registro
\* catches what the write raises, and the method returns True
catalogo_registrar_herramienta(nombre, metadata, escritura) ==
    /\ Len(historial_herramientas) < MaxHistorial
    /\ IF metadata = MetadataNone
       THEN /\ ret' = [ op |-> "registrar_herramienta", nombre |-> nombre,
                        valor |-> FALSE, guardado |-> FALSE, fallo_es |-> FALSE ]
            /\ UNCHANGED Catalogo
       ELSE /\ LET reg == registrar_herramienta(Registry, nombre, metadata) IN
               /\ herramientas_registradas' = reg.herramientas_registradas
               /\ historial_herramientas' = reg.historial_herramientas
               /\ archivo' = guardar_registro(reg, archivo, escritura)
            /\ ret' = [ op |-> "registrar_herramienta", nombre |-> nombre,
                        valor |-> TRUE, guardado |-> TRUE,
                        fallo_es |-> (escritura # "ok") ]
    /\ UNCHANGED << Sistema, herramientas, herramientas_generadas >>

\* RegistryTools.desregistrar_herramienta, with the guardar_registro it ends
\* with when the name has an entry
catalogo_desregistrar_herramienta(nombre, escritura) ==
    /\ IF nombre \in DOMAIN herramientas_registradas
       THEN /\ Len(historial_herramientas) < MaxHistorial
            /\ LET reg == desregistrar_herramienta(Registry, nombre) IN
               /\ herramientas_registradas' = reg.herramientas_registradas
               /\ historial_herramientas' = reg.historial_herramientas
               /\ archivo' = guardar_registro(reg, archivo, escritura)
            /\ ret' = [ op |-> "desregistrar_herramienta", nombre |-> nombre,
                        valor |-> TRUE, guardado |-> TRUE,
                        fallo_es |-> (escritura # "ok") ]
       ELSE /\ ret' = [ op |-> "desregistrar_herramienta", nombre |-> nombre,
                        valor |-> FALSE, guardado |-> FALSE, fallo_es |-> FALSE ]
            /\ UNCHANGED Catalogo
    /\ UNCHANGED << Sistema, herramientas, herramientas_generadas >>

\* RegistryTools.incrementar_uso: in memory only, nothing is saved
catalogo_incrementar_uso(nombre) ==
    /\ nombre \in DOMAIN herramientas_registradas
           => herramientas_registradas[nombre].uso_count < MaxUso
    /\ herramientas_registradas' = incrementar_uso(Registry, nombre).herramientas_registradas
    /\ ret' = [ op |-> "incrementar_uso", nombre |-> nombre ]
    /\ UNCHANGED << Sistema, herramientas, herramientas_generadas,
                    historial_herramientas, archivo >>

\* RegistryTools.listar_herramientas
catalogo_listar_herramientas(filtro_estado) ==
    /\ ret' = [ op |-> "listar_herramientas", filtro_aplicado |-> filtro_estado,
                total |-> Cardinality(DOMAIN listar_herramientas(Registry, filtro_estado)),
                nombres |-> DOMAIN listar_herramientas(Registry, filtro_estado) ]
    /\ UNCHANGED << Sistema, Catalogo, herramientas, herramientas_generadas >>

RECURSIVE SumaUso(_, _)
\* sum(h.get('uso_count', 0) for h in d.values())
SumaUso(d, nombres) ==
    IF nombres = {} THEN 0
    ELSE LET n == CHOOSE n \in nombres : TRUE
         IN  d[n].uso_count + SumaUso(d, nombres \ {n})

\* RegistryTools.obtener_estadisticas, without the quotient promedio_uso
catalogo_obtener_estadisticas ==
    /\ ret' = [ op |-> "obtener_estadisticas",
                total_herramientas |-> Cardinality(DOMAIN herramientas_registradas),
                activas |-> Cardinality(DOMAIN listar_herramientas(Registry, "activa")),
                inactivas |-> Cardinality(DOMAIN listar_herramientas(Registry, "inactiva")),
                total_uso |-> SumaUso(herramientas_registradas,
                                      DOMAIN herramientas_registradas) ]
    /\ UNCHANGED << Sistema, Catalogo, herramientas, herramientas_generadas >>

\* RegistryTools.reset_completo: os.remove can raise, after the memory was
\* cleared, and nothing in reset_completo catches it
catalogo_reset_completo(borrado) ==
    /\ herramientas_registradas' = Vacio
    /\ historial_herramientas' = << >>
    /\ archivo' = IF archivo.existe /\ borrado = "falla" THEN archivo ELSE ArchivoAusente
    /\ ret' = [ op |-> "reset_completo", lanza |-> (archivo.existe /\ borrado = "falla") ]
    /\ UNCHANGED << Sistema, herramientas, herramientas_generadas >>

\* RegistryTools.__init__ of a new object on the same store
catalogo_init ==
    /\ herramientas_registradas' = cargar_registro(archivo).herramientas_registradas
    /\ historial_herramientas' = cargar_registro(archivo).historial_herramientas
    /\ ret' = [ op |-> "RegistryTools", existia |-> archivo.existe ]
    /\ UNCHANGED << Sistema, herramientas, herramientas_generadas, archivo >>

NextRegistry ==
    \/ \E nombre \in NombresCatalogo, metadata \in MetadatosCatalogo,
          escritura \in Escrituras :
           catalogo_registrar_herramienta(nombre, metadata, escritura)
    \/ \E nombre \in NombresCatalogo, escritura \in Escrituras :
           catalogo_desregistrar_herramienta(nombre, escritura)
    \/ \E nombre \in NombresCatalogo : catalogo_incrementar_uso(nombre)
    \/ \E filtro_estado \in { "", "activa", "inactiva" } :
           catalogo_listar_herramientas(filtro_estado)
    \/ catalogo_obtener_estadisticas
    \/ \E borrado \in { "ok", "falla" } : catalogo_reset_completo(borrado)
    \/ catalogo_init

SpecRegistry == Init /\ [][NextRegistry]_vars

-----------------------------------------------------------------------------
(* Properties.                                                             *)

\* C1: in every state of the Orchestrator, a name is among the Invoker's
\* synthesized capabilities if and only if the Catalog holds an entry for it
\* whose estado is "activa".
ConsistenciaRegistryEjecutor ==
    \A n \in (DOMAIN herramientas_generadas) \cup (DOMAIN herramientas_registradas) :
        n \in DOMAIN herramientas_generadas
            <=> ( /\ n \in DOMAIN herramientas_registradas
                  /\ herramientas_registradas[n].estado = "activa" )

\* C2: after any sequence of Invoker calls with any names, the names of the
\* live mapping are the builtin names together with the synthesized names, and
\* every builtin name maps to the callable it had at startup.
MapeoVivo ==
    /\ DOMAIN herramientas = (DOMAIN herramientas_base) \cup (DOMAIN herramientas_generadas)
    /\ \A n \in DOMAIN herramientas_base : herramientas[n] = herramientas_base[n]

\* C3: remover_herramienta_generada(nombre) for a builtin name, or for a name
\* absent from the live mapping, returns False and changes neither the live
\* mapping, nor the synthesized set, nor the Catalog.
RemoverBaseODesconocida ==
    [][ \A nombre \in NombresAPI :
          ( /\ ejecutor_remover_herramienta_generada(nombre)
            /\ \/ nombre \in DOMAIN herramientas_base
               \/ nombre \notin DOMAIN herramientas )
          => ( /\ ret'.valor = FALSE
               /\ UNCHANGED << herramientas, herramientas_generadas, Catalogo >> )
      ]_vars

\* C4: when the provider call fails or no credential is configured,
\* generar_herramienta returns a result without error that carries a name and a
\* callable.
GarantiaFallback ==
    ( /\ ret.op = "generar_herramienta"
      /\ (ret.respuesta.falla \/ ~ api_key) )
    => ( /\ ~ ret.resultado.error
         /\ ret.resultado.nombre # None
         /\ ret.resultado.funcion # FuncionNone )

\* C5: when the provider answers and nothing can be extracted from the answer,
\* or what is extracted does not compile, generar_herramienta returns a result
\* without error whose code is the category's fallback template.
FallosAbsorbidos ==
    ( /\ ret.op = "generar_herramienta"
      /\ api_key
      /\ ~ ret.respuesta.falla
      /\ LET codigo == _extraer_codigo_python(ret.respuesta) IN
         \/ codigo = CodigoNone
         \/ EsVerdadero(codigo) /\ ~ Compila(codigo) )
    => ( /\ ~ ret.resultado.error
         /\ ret.resultado.funcion # FuncionNone
         /\ ret.resultado.codigo = _usar_template_fallback(ret.consulta, ret.tipo).valor )

\* C6: every request text has yielded at most one capability name, however
\* often and in whatever states it was synthesized.
NombreDeterminista ==
    \A c \in Textos : Cardinality(nombres_derivados[c].nombres) <= 1

\* C6, its case: a text is synthesized for the second time, as the first
\* request after a reset or in a new process.
NombreRepetido ==
    \E c \in Textos :
        /\ nombres_derivados[c].veces = 2
        /\ ret.op = "procesar_consulta"
        /\ ret.consulta = c
        /\ Str(ret.resultado) = "herramienta_generada"
        /\ consultas_procesadas = 1

\* the state reset_sistema is to leave
EstadoOriginal ==
    /\ DOMAIN herramientas_generadas = {}
    /\ herramientas = herramientas_base
    /\ DOMAIN herramientas_registradas = {}
    /\ historial_herramientas = << >>
    /\ ~ archivo.existe
    /\ herramientas_disponibles = {}
    /\ historial_consultas = << >>
    /\ estado = "inicializado"
    /\ consultas_procesadas = 0

\* C7: reset_sistema leaves no synthesized capability and every builtin in the
\* Invoker, an empty Catalog without its store, an empty classifier, estado
\* "inicializado" and the counter 0; called again at once it changes nothing.
ResetIdempotente ==
    [][ \A borrado \in { "ok", "falla" } :
          reset_sistema(borrado)
          => ( /\ EstadoOriginal'
               /\ ret.op = "reset_sistema"
                  => UNCHANGED << estado, consultas_procesadas, pc, decision,
                                  herramientas_disponibles, historial_consultas,
                                  herramientas, herramientas_generadas, Catalogo >> )
      ]_vars

\* C8: whatever reset_sistema returns carries the number of synthesized
\* capabilities it removed from the Invoker.
ResetReportaCuenta ==
    ret.op = "reset_sistema"
    => ( /\ "herramientas_removidas" \in DOMAIN ret.resultado
         /\ ret.resultado.herramientas_removidas = Cardinality(ret.generadas) )

\* C9: reset_herramientas_generadas removes a capability registered in the
\* Invoker and in the Catalog from both, so that listar_herramientas no longer
\* holds it; it returns the list of the names removed and leaves every builtin
\* in place.
ResetGeneradasRetiraDeAmbos ==
    [][ ejecutor_reset_herramientas_generadas
        => ( /\ \A n \in (DOMAIN herramientas_generadas) \cap (DOMAIN herramientas_registradas) :
                  /\ n \notin DOMAIN herramientas_generadas'
                  /\ n \notin DOMAIN listar_herramientas(
                         [ herramientas_registradas |-> herramientas_registradas',
                           historial_herramientas |-> historial_herramientas' ], "")
             /\ ret'.tipo = "list"
             /\ \A b \in DOMAIN herramientas_base :
                  b \in DOMAIN herramientas' /\ herramientas'[b] = herramientas_base[b] )
      ]_vars

\* C10: ejecutar_herramienta(nombre) for a name absent from the live mapping
\* returns an error whose known names are those of the live mapping and hold
\* every builtin name, and changes nothing in the Invoker.
EjecutarDesconocida ==
    [][ \A nombre \in NombresAPI, kwargs \in { {}, { "department" } }, falla \in BOOLEAN :
          ( /\ ejecutor_ejecutar_herramienta(nombre, kwargs, falla)
            /\ nombre \notin DOMAIN herramientas )
          => ( /\ ret'.resultado.error
               /\ ret'.resultado.herramientas_disponibles = DOMAIN herramientas
               /\ (DOMAIN herramientas_base) \subseteq ret'.resultado.herramientas_disponibles
               /\ UNCHANGED << herramientas, herramientas_generadas >> )
      ]_vars

\* C11: ejecutar_herramienta(nombre) on a present capability whose callable
\* raises returns an error that carries the name and a message, and changes
\* neither the live mapping, nor the synthesized set, nor the Catalog.
InvocarCapturaFallo ==
    [][ \A nombre \in NombresAPI, kwargs \in { {}, { "department" } }, falla \in BOOLEAN :
          ( /\ ejecutor_ejecutar_herramienta(nombre, kwargs, falla)
            /\ nombre \in DOMAIN herramientas
            /\ Lanza(herramientas[nombre], kwargs, falla) )
          => ( /\ ret'.resultado.error
               /\ { "herramienta", "mensaje" } \subseteq DOMAIN ret'.resultado
               /\ ret'.resultado.herramienta = nombre
               /\ UNCHANGED << herramientas, herramientas_generadas, Catalogo >> )
      ]_vars

\* C11, its case: a synthesized capability was invoked and its callable raised.
FalloInvocado ==
    /\ ret.op = "ejecutar_herramienta"
    /\ ret.nombre \in DOMAIN herramientas_generadas
    /\ ret.resultado.error
    /\ "herramienta" \in DOMAIN ret.resultado

\* a step of the pipeline failed in the request that returned `resultado`: the
\* classification raised, the synthesis failed, or the capability was not
\* found or raised
FalloEnPaso(resultado) ==
    CASE Str(resultado) = "herramienta_existente" -> resultado.resultado.error
      [] Str(resultado) = "herramienta_generada" -> resultado.resultado_ejecucion.error
      [] Str(resultado) = "error_generacion" -> TRUE
      [] Str(resultado) = "ofensiva" -> FALSE
      [] OTHER -> TRUE

\* C12: when procesar_consulta has returned, if a step of the pipeline failed
\* the outcome has error = True and a message and estado is "error"; if none
\* failed estado is "listo".
FalloDejaEstadoError ==
    ( ret.op = "procesar_consulta" /\ pc = "idle" )
    => IF FalloEnPaso(ret.resultado)
       THEN /\ { "error", "mensaje" } \subseteq DOMAIN ret.resultado
            /\ ret.resultado.error
            /\ estado = "error"
       ELSE estado = "listo"

\* C13: estado is one of inicializado, procesando, listo, error; it is
\* inicializado only while no request was processed since construction or the
\* last reset; it is procesando exactly while procesar_consulta runs, which
\* returns with listo or error; and a request none of whose steps fails ends
\* in listo, whatever estado was when it began.
EstadosDelSistema ==
    /\ [](estado \in { "inicializado", "procesando", "listo", "error" })
    /\ [](estado = "inicializado" => consultas_procesadas = 0)
    /\ [](pc = "procesando" <=> estado = "procesando")
    /\ []( (ret.op = "procesar_consulta" /\ pc = "idle")
           => /\ estado \in { "listo", "error" }
              /\ ~ FalloEnPaso(ret.resultado) => estado = "listo" )

\* C13, its case: of two requests since the last reset the first raised (it left
\* no record and estado "error") and the second, with no failing step, has
\* returned.
ErrorSuperado ==
    /\ ret.op = "procesar_consulta"
    /\ pc = "idle"
    /\ consultas_procesadas = 2
    /\ Len(historial_consultas) = 1
    /\ ~ FalloEnPaso(ret.resultado)
    /\ estado = "listo"

\* the capability invoked inside the request that returned `resultado` was not
\* found or raised
FalloInvocacion(resultado) ==
    CASE Str(resultado) = "herramienta_existente" -> resultado.resultado.error
      [] Str(resultado) = "herramienta_generada" -> resultado.resultado_ejecucion.error
      [] Str(resultado) = "error" -> "herramienta" \in DOMAIN resultado
      [] OTHER -> FALSE

\* C14: every outcome of procesar_consulta has a top-level error flag, and when
\* the invocation inside the request failed the flag is True and a message
\* comes with it.
ResultadoConBandera ==
    ret.op = "procesar_consulta"
    => /\ "error" \in DOMAIN ret.resultado
       /\ FalloInvocacion(ret.resultado)
          => ( ret.resultado.error /\ "mensaje" \in DOMAIN ret.resultado )

\* C15: a request routed to synthesize whose synthesis fails returns an outcome
\* with error = True and changes neither the live mapping, nor the synthesized
\* set, nor the Catalog's entries, audit trail and store, nor the classifier's
\* learned names.
FalloSintesisNoRegistra ==
    [][ \A respuesta \in RespuestasSistema, falla \in BOOLEAN, escritura \in Escrituras :
          ( /\ procesar_consulta_generar(respuesta, falla, escritura)
            /\ generar_herramienta(decision.consulta, decision.tipo_herramienta,
                                   respuesta).error )
          => ( /\ ret'.resultado.error
               /\ UNCHANGED << herramientas, herramientas_generadas, Catalogo,
                               herramientas_disponibles >> )
      ]_vars

\* C15, its case: a synthesis has failed while the Invoker, the Catalog, the
\* store and the classifier hold a capability synthesized before.
SintesisFallida ==
    /\ ret.op = "procesar_consulta"
    /\ pc = "idle"
    /\ Str(ret.resultado) = "error_generacion"
    /\ DOMAIN herramientas_generadas # {}
    /\ DOMAIN herramientas_registradas # {}
    /\ archivo.existe
    /\ herramientas_disponibles # {}

\* C16: when a request has synthesized a capability, registered its entry and
\* invoked it, the entry's uso_count is 1 if that invocation succeeded and 0
\* if it failed: the number of successful invocations since the registration.
UsoCuentaInvocaciones ==
    ( /\ ret.op = "procesar_consulta"
      /\ pc = "idle"
      /\ Str(ret.resultado) = "herramienta_generada" )
    => /\ ret.resultado.herramienta \in DOMAIN herramientas_registradas
       /\ herramientas_registradas[ret.resultado.herramienta].uso_count =
              IF ret.resultado.resultado_ejecucion.error THEN 0 ELSE 1

\* C17: the names the classifier has learned influence the routing: a request
\* whose synthesized name is already among herramientas_disponibles is
\* classified as execute and resolved to that name.
ConocidasInfluyenRuta ==
    [][ \A consulta \in Consultas :
          ( /\ procesar_consulta_inicio(consulta)
            /\ NombreDe[consulta] \in herramientas_disponibles )
          => ( /\ decision'.accion = "ejecutar"
               /\ decision'.herramienta = NombreDe[consulta] )
      ]_vars

\* C17, what holds instead: every successful synthesis adds its name to
\* herramientas_disponibles, and no decision is ever resolved to a name of
\* that set.
RutaIgnoraConocidas ==
    /\ ( ret.op = "procesar_consulta" /\ pc = "idle"
         /\ Str(ret.resultado) = "herramienta_generada" )
       => ret.resultado.herramienta \in herramientas_disponibles
    /\ decision.accion = "ejecutar" => decision.herramienta \notin herramientas_disponibles

\* the route of a decision and what it resolves to
Ruta(d) ==
    IF d.accion = "ejecutar" THEN << d.accion, d.herramienta >>
    ELSE << d.accion, d.tipo_herramienta >>

\* the rows of _identificar_herramienta the request holds a trigger of
FilasLeidas ==
    { Leida(ret.frases[1], ret.forma, 1).fila,
      Leida(ret.frases[2], ret.forma, 2).fila } \ { 0 }

\* the decision is that of the earliest row whose trigger the lower-cased
\* request holds, and lower-casing the request again changes nothing
PrimeraFilaLeida ==
    ret.op = "analizar_consulta"
    => LET d == ret.decision
       IN  /\ Cardinality(FilasLeidas) >= 2 => d.accion = "ejecutar"
           /\ d.accion = "ejecutar"
              => /\ FilasLeidas # {}
                 /\ d.herramienta =
                      TablaHerramientas[CHOOSE k \in FilasLeidas :
                                            \A j \in FilasLeidas : k <= j].herramienta
           /\ Ruta(analizar_consulta(Lower(Consulta(ret.frases[1], ret.frases[2],
                                                    ret.forma)))) = Ruta(d)
           /\ ( /\ ret.frases[1].mayusculas = ret.frases[1].texto
                /\ ret.frases[2].mayusculas = ret.frases[2].texto )
              => \A forma \in Formas :
                     Ruta(DecisionClasificar[ret.frases[1]][ret.frases[2]][forma]) = Ruta(d)

\* C18: a request holding triggers of several rows is resolved to the name of
\* the earliest of them; whenever a request is routed to execute its name is
\* that of the earliest row it holds a trigger of; and the same request in
\* another letter case has the same route and the same name.
PrimeraFilaGana ==
    ret.op = "analizar_consulta"
    => LET a == ret.frases[1]
           b == ret.frases[2]
           d == ret.decision
       IN  /\ PrimeraFilaLeida
           /\ \A forma \in Formas : Ruta(DecisionClasificar[a][b][forma]) = Ruta(d)

\* C19: every pattern of _puede_responder_directamente holds a trigger of
\* _identificar_herramienta, so no decision is execute with the name None;
\* every decision is execute with a name of the table or synthesize with
\* ldap_query or generic_query; and a request with no known pattern is routed
\* to synthesize, with ldap_query exactly when it holds a group, user or
\* department word.
ClasificarTotal ==
    /\ \A k \in 1..Len(patrones_conocidos) :
           _identificar_herramienta(patrones_conocidos[k]) # None
    /\ ret.op = "analizar_consulta"
       => LET a == ret.frases[1]
              b == ret.frases[2]
              d == ret.decision
              leida == Leida(a, ret.forma, 1).conocida \/ Leida(b, ret.forma, 2).conocida
              clave == Leida(a, ret.forma, 1).clave \/ Leida(b, ret.forma, 2).clave
          IN  /\ \/ /\ d.accion = "ejecutar"
                    /\ \E k \in 1..Len(TablaHerramientas) :
                           d.herramienta = TablaHerramientas[k].herramienta
                 \/ /\ d.accion = "generar"
                    /\ d.tipo_herramienta \in { "ldap_query", "generic_query" }
              /\ ~ leida
                 => /\ d.accion = "generar"
                    /\ d.tipo_herramienta = "ldap_query" <=> clave

\* C19, its case: a request that holds a trigger of _identificar_herramienta
\* ("que grupos") and no pattern of _puede_responder_directamente, routed to
\* synthesize with ldap_query.
SinPatronConocido ==
    /\ ret.op = "analizar_consulta"
    /\ ret.frases[1].texto = "que grupos"
    /\ ~ Leida(ret.frases[2], ret.forma, 2).conocida
    /\ ret.decision.accion = "generar"
    /\ ret.decision.tipo_herramienta = "ldap_query"

\* C20: between requests, historial_consultas holds exactly one record per
\* request processed since construction or the last reset, in request order:
\* its length is consultas_procesadas, and the record of the last request
\* processed is the last one.
HistorialUnoPorConsulta ==
    pc = "idle"
    => /\ Len(historial_consultas) = consultas_procesadas
       /\ ( ret.op = "procesar_consulta" /\ Len(historial_consultas) > 0 )
          => historial_consultas[Len(historial_consultas)].consulta = ret.consulta

\* what registrar_herramienta(nombre, metadata) does with a metadata dict,
\* whatever the write does: the entry is stored active with uso_count 0, one
\* "registro" record of the name is appended, and a write that goes through
\* leaves the whole catalog in the store
RegistrarAlmacena(nombre, escritura) ==
    /\ nombre \in DOMAIN herramientas_registradas'
    /\ herramientas_registradas'[nombre].estado = "activa"
    /\ herramientas_registradas'[nombre].uso_count = 0
    /\ historial_herramientas' =
           Append(historial_herramientas,
                  [ accion |-> "registro", herramienta |-> nombre ])
    /\ escritura = "ok"
       => /\ archivo'.existe /\ archivo'.json
          /\ archivo'.herramientas = herramientas_registradas'
          /\ archivo'.historial = historial_herramientas'

\* C21: registrar_herramienta stores the entry with estado "activa" and
\* uso_count 0, appends exactly one "registro" record and saves the whole
\* catalog; when the write to the store fails it returns False, with the entry
\* and the record in memory all the same.
RegistrarReportaFallo ==
    [][ \A nombre \in NombresCatalogo, metadata \in Metadatos, escritura \in Escrituras :
          catalogo_registrar_herramienta(nombre, metadata, escritura)
          => /\ RegistrarAlmacena(nombre, escritura)
             /\ ret'.valor = (escritura = "ok")
      ]_vars

\* C21, what holds instead: the entry, the record and the save are as stated,
\* and the value returned is True whatever the write did.
RegistrarRetornaTrue ==
    [][ \A nombre \in NombresCatalogo, metadata \in Metadatos, escritura \in Escrituras :
          catalogo_registrar_herramienta(nombre, metadata, escritura)
          => /\ RegistrarAlmacena(nombre, escritura)
             /\ ret'.valor = TRUE
      ]_vars

\* C22: desregistrar_herramienta of a name that has an entry changes only its
\* estado, to "inactiva", and its fecha_desregistro; registrar_herramienta,
\* desregistrar_herramienta and incrementar_uso keep every entry the Catalog
\* holds, active or retired; and an entry leaves the Catalog only through
\* reset_completo (a RegistryTools built anew on the store is another object).
RetiroSuave ==
    [][ /\ \A nombre \in NombresCatalogo, escritura \in Escrituras :
             ( /\ catalogo_desregistrar_herramienta(nombre, escritura)
               /\ nombre \in DOMAIN herramientas_registradas )
             => /\ ret'.valor = TRUE
                /\ herramientas_registradas' =
                       [ herramientas_registradas EXCEPT
                           ![nombre].estado = "inactiva",
                           ![nombre].fecha_desregistro = TRUE ]
        /\ ret'.op \in { "registrar_herramienta", "desregistrar_herramienta",
                         "incrementar_uso" }
           => \A n \in DOMAIN herramientas_registradas :
                  /\ n \in DOMAIN herramientas_registradas'
                  /\ herramientas_registradas'[n].estado \in { "activa", "inactiva" }
        /\ ( \E n \in DOMAIN herramientas_registradas :
                 n \notin DOMAIN herramientas_registradas' )
           => ret'.op \in { "reset_completo", "RegistryTools" }
      ]_vars

\* C22, its case: an invocation recorded for a name that was retired before,
\* whose entry is still there, retired and stamped.
RetiradaConservada ==
    /\ ret.op = "incrementar_uso"
    /\ ret.nombre \in DOMAIN herramientas_registradas
    /\ herramientas_registradas[ret.nombre].estado = "inactiva"
    /\ herramientas_registradas[ret.nombre].fecha_desregistro
    /\ herramientas_registradas[ret.nombre].uso_count > 0
    /\ \E k \in 1..Len(historial_herramientas) :
           historial_herramientas[k] = [ accion |-> "desregistro", herramienta |-> ret.nombre ]

\* C23: across registrar_herramienta, desregistrar_herramienta,
\* incrementar_uso, listar_herramientas and obtener_estadisticas the audit
\* trail of before is a prefix of the audit trail of after; a registration or
\* a retirement that returns True appends exactly one record, of its kind and
\* its name, and one that returns False appends nothing; and the trail gets
\* shorter only through reset_completo (a RegistryTools built anew on the
\* store is another object).
HistorialSoloCrece ==
    [][ /\ ret'.op \in { "registrar_herramienta", "desregistrar_herramienta",
                         "incrementar_uso", "listar_herramientas",
                         "obtener_estadisticas" }
           => /\ Len(historial_herramientas) <= Len(historial_herramientas')
              /\ SubSeq(historial_herramientas', 1, Len(historial_herramientas))
                     = historial_herramientas
        /\ ret'.op \in { "registrar_herramienta", "desregistrar_herramienta" }
           => historial_herramientas' =
                  IF ret'.valor
                  THEN Append(historial_herramientas,
                              [ accion |-> IF ret'.op = "registrar_herramienta"
                                           THEN "registro" ELSE "desregistro",
                                herramienta |-> ret'.nombre ])
                  ELSE historial_herramientas
        /\ Len(historial_herramientas') < Len(historial_herramientas)
           => ret'.op \in { "reset_completo", "RegistryTools" }
      ]_vars

\* C23, its case: a retirement has appended its record behind the record of
\* the registration of the same name.
RetiroAnotado ==
    /\ ret.op = "desregistrar_herramienta"
    /\ ret.valor
    /\ historial_herramientas =
           << [ accion |-> "registro", herramienta |-> ret.nombre ],
              [ accion |-> "desregistro", herramienta |-> ret.nombre ] >>

\* a RegistryTools built on the store would load the Catalog of the current
\* state: the document holds its entries and its audit list, or there is no
\* document and the Catalog is empty
AlmacenAlDia ==
    /\ cargar_registro(archivo) = Registry
    /\ archivo.existe
       => /\ archivo.json
          /\ archivo.herramientas = herramientas_registradas
          /\ archivo.historial = historial_herramientas

\* the last call was a registrar_herramienta or a desregistrar_herramienta
\* whose write, if it made one, met no fault
SinFalloDeEscritura ==
    /\ ret.op \in { "registrar_herramienta", "desregistrar_herramienta" }
    /\ ~ ret.fallo_es

\* C24: whenever registrar_herramienta or desregistrar_herramienta has
\* returned without a fault of the write, the store holds the entries (estado
\* and uso_count included) and the audit list of memory; a RegistryTools built
\* on that store then loads exactly that state, and an absent store loads as
\* an empty Catalog.
AlmacenRefina ==
    /\ [] ( SinFalloDeEscritura => AlmacenAlDia )
    /\ [][ catalogo_init
           => /\ SinFalloDeEscritura
                 => /\ herramientas_registradas' = herramientas_registradas
                    /\ historial_herramientas' = historial_herramientas
              /\ ~ archivo.existe
                 => /\ herramientas_registradas' = Vacio
                    /\ historial_herramientas' = << >>
         ]_vars

\* C24, amended: the same for the calls that reach guardar_registro, that is
\* registrar_herramienta with a metadata dict and desregistrar_herramienta of
\* a name that has an entry; a call that returns False saves nothing and
\* leaves the store as stale as it was.
AlmacenRefinaAlGuardar ==
    /\ [] ( ( SinFalloDeEscritura /\ ret.guardado ) => AlmacenAlDia )
    /\ [][ catalogo_init
           => /\ ( SinFalloDeEscritura /\ ret.guardado )
                 => /\ herramientas_registradas' = herramientas_registradas
                    /\ historial_herramientas' = historial_herramientas
              /\ ~ archivo.existe
                 => /\ herramientas_registradas' = Vacio
                    /\ historial_herramientas' = << >>
         ]_vars

\* C24, its case: a new RegistryTools has loaded from the store a retired
\* entry with its counter and the two records of its audit trail.
CargadoDelAlmacen ==
    /\ ret.op = "RegistryTools"
    /\ ret.existia
    /\ AlmacenAlDia
    /\ Len(historial_herramientas) = 2
    /\ \E n \in DOMAIN herramientas_registradas :
           /\ herramientas_registradas[n].estado = "inactiva"
           /\ herramientas_registradas[n].uso_count > 0

\* C25: every successful outcome of ejecutar_herramienta is tagged with the
\* origin of the callable that ran: "base" exactly when it is the callable
\* installed at startup under that name, "generada" exactly when it is the
\* callable installed under that name by agregar_herramienta_generada.
OrigenDelResultado ==
    ( ret.op = "ejecutar_herramienta" /\ ~ ret.resultado.error )
    => LET nombre == ret.resultado.herramienta
           funcion == ret.resultado.resultado
       IN  /\ ret.resultado.tipo \in { "base", "generada" }
           /\ ret.resultado.tipo = "base"
              <=> ( /\ nombre \in DOMAIN herramientas_base
                    /\ funcion = herramientas_base[nombre] )
           /\ ret.resultado.tipo = "generada"
              <=> ( /\ nombre \in DOMAIN herramientas_generadas
                    /\ funcion = herramientas_generadas[nombre] )

\* C25, what holds instead: the tag follows the name, "base" exactly when the
\* name is one of the names installed at startup, whatever callable ran.
OrigenPorNombre ==
    ( ret.op = "ejecutar_herramienta" /\ ~ ret.resultado.error )
    => /\ ret.resultado.resultado = herramientas[ret.resultado.herramienta]
       /\ ret.resultado.tipo =
              IF ret.resultado.herramienta \in DOMAIN herramientas_base
              THEN "base" ELSE "generada"

\* C26: a request whose synthesis succeeded has called, after the synthesis
\* and in this order, the Invoker's agregar_herramienta_generada, the
\* Catalog's registrar_herramienta, the classifier's registrar_herramienta and
\* then ejecutar_herramienta, once; the invocation ran the callable just
\* installed; and when the request has returned the name is among the
\* Invoker's synthesized capabilities, has an active entry in the Catalog and
\* is in herramientas_disponibles, whether the invocation succeeded or not.
SintesisRegistraEInvoca ==
    ( /\ ret.op = "procesar_consulta"
      /\ pc = "idle"
      /\ Str(ret.resultado) = "herramienta_generada" )
    => LET nombre == ret.resultado.herramienta
           ejecucion == ret.resultado.resultado_ejecucion
       IN  /\ ret.llamadas = << "generador.generar_herramienta",
                                "ejecutor.agregar_herramienta_generada",
                                "registry.registrar_herramienta",
                                "coordinador.registrar_herramienta",
                                "ejecutor.ejecutar_herramienta" >>
           /\ "herramienta" \in DOMAIN ejecucion
           /\ ejecucion.herramienta = nombre
           /\ ~ ejecucion.error
              => ejecucion.resultado = ret.resultado.resultado_generacion.funcion
           /\ nombre \in DOMAIN herramientas_generadas
           /\ herramientas_generadas[nombre] = ret.resultado.resultado_generacion.funcion
           /\ herramientas[nombre] = herramientas_generadas[nombre]
           /\ nombre \in DOMAIN herramientas_registradas
           /\ herramientas_registradas[nombre].estado = "activa"
           /\ nombre \in herramientas_disponibles

\* C26, its case: a synthesis succeeded and the first invocation of the new
\* capability failed.
PrimeraInvocacionFallida ==
    /\ ret.op = "procesar_consulta"
    /\ pc = "idle"
    /\ Str(ret.resultado) = "herramienta_generada"
    /\ ret.resultado.resultado_ejecucion.error
    /\ ret.resultado.herramienta \in DOMAIN herramientas_generadas
    /\ ret.resultado.herramienta \in DOMAIN herramientas_registradas
    /\ ret.resultado.herramienta \in herramientas_disponibles

\* C27: every accepted request completes: whenever estado is "procesando" it
\* becomes "listo" or "error", a request that is being processed returns its
\* outcome, and estado is never "procesando" once the call has returned.
ConsultaTermina ==
    /\ ( estado = "procesando" ) ~> ( estado \in { "listo", "error" } )
    /\ ( pc = "procesando" ) ~> ( pc = "idle" /\ ret.op = "procesar_consulta" )
    /\ [] ( pc = "idle" => estado # "procesando" )
    /\ [] ( pc = "procesando" => estado = "procesando" )

\* C27, its case: the second request of a process has returned after its
\* classification raised.
SegundaConsultaDevuelta ==
    /\ pc = "idle"
    /\ ret.op = "procesar_consulta"
    /\ consultas_procesadas >= 2
    /\ estado = "error"
    /\ ret.resultado.error

RECURSIVE Registros(_, _)
\* the number of "registro" records of a name in an audit trail
Registros(historial, nombre) ==
    IF Len(historial) = 0 THEN 0
    ELSE ( IF historial[Len(historial)] = [ accion |-> "registro", herramienta |-> nombre ]
           THEN 1 ELSE 0 )
         + Registros(SubSeq(historial, 1, Len(historial) - 1), nombre)

\* C28: when a request synthesizes a capability under a name that the Invoker
\* or the Catalog already holds, no name is added to either, the Invoker's
\* callable for the name is the one just synthesized, the entry of the Catalog
\* is active with uso_count 0, and the audit trail has one "registro" record
\* more for the name: one per registration.
ReRegistroSobrescribe ==
    [][ ( /\ pc = "procesando"
          /\ ret'.op = "procesar_consulta"
          /\ Str(ret'.resultado) = "herramienta_generada"
          /\ \/ ret'.resultado.herramienta \in DOMAIN herramientas_generadas
             \/ ret'.resultado.herramienta \in DOMAIN herramientas_registradas )
        => LET nombre == ret'.resultado.herramienta
               funcion == ret'.resultado.resultado_generacion.funcion
           IN  /\ DOMAIN herramientas_generadas' = DOMAIN herramientas_generadas \cup { nombre }
               /\ DOMAIN herramientas' = DOMAIN herramientas \cup { nombre }
               /\ DOMAIN herramientas_registradas' =
                      DOMAIN herramientas_registradas \cup { nombre }
               /\ nombre \in DOMAIN herramientas_generadas
                  => DOMAIN herramientas' = DOMAIN herramientas
               /\ herramientas'[nombre] = funcion
               /\ herramientas_generadas'[nombre] = funcion
               /\ herramientas_registradas'[nombre].estado = "activa"
               /\ herramientas_registradas'[nombre].uso_count = 0
               /\ Registros(historial_herramientas', nombre)
                      = Registros(historial_herramientas, nombre) + 1
               /\ Len(historial_herramientas') = Len(historial_herramientas) + 1
      ]_vars

\* C28, its case: the same request text was synthesized twice, the second
\* time into the callable compiled from the provider's code, and the audit
\* trail holds the two registrations of the one name.
RegistradaDosVeces ==
    /\ ret.op = "procesar_consulta"
    /\ pc = "idle"
    /\ Str(ret.resultado) = "herramienta_generada"
    /\ Registros(historial_herramientas, ret.resultado.herramienta) = 2
    /\ Cardinality(DOMAIN herramientas_generadas) = 1
    /\ Cardinality(DOMAIN herramientas_registradas) = 1
    /\ herramientas[ret.resultado.herramienta].clase = "def_get"

\* the outcome of an invocation that did not find the name
NoEncontrada(resultado) == "herramientas_disponibles" \in DOMAIN resultado

\* the outcome of the invocation made by a request routed to execute: that of
\* ejecutar_herramienta_ofensiva is the request's outcome, that of
\* ejecutar_herramienta is inside it
Invocacion(r) ==
    IF r.llamadas[1] = "ofensivo.ejecutar_herramienta_ofensiva"
    THEN r.resultado
    ELSE r.resultado.resultado

\* the last call was a request routed to execute, and it has returned
RutaEjecutar ==
    /\ ret.op = "procesar_consulta"
    /\ pc = "idle"
    /\ "llamadas" \in DOMAIN ret
    /\ ret.llamadas[1] \in { "ofensivo.ejecutar_herramienta_ofensiva",
                             "ejecutor.ejecutar_herramienta" }

\* C29: the name a request routed to execute is resolved to is a key of the
\* mapping procesar_consulta dispatches it to, the offensive agent's for the
\* three offensive names and the Invoker's live mapping for the others; so no
\* request routed to execute ends in a not-found outcome.
NombreResueltoConocido ==
    RutaEjecutar
    => LET nombre == DecisionDe[ret.consulta].herramienta
       IN  /\ IF EsOfensiva(nombre)
              THEN nombre \in herramientas_ofensivas
              ELSE nombre \in DOMAIN herramientas
           /\ ~ NoEncontrada(Invocacion(ret))

\* C29, what holds instead: the names of the other rows are keys of the
\* mapping they are dispatched to, and the one not-found outcome of a request
\* routed to execute is that of tool_starttls_test.
SoloStarttlsDesconocida ==
    /\ \A k \in 1..Len(TablaHerramientas) :
           LET nombre == TablaHerramientas[k].herramienta
           IN  nombre # "tool_starttls_test"
               => IF EsOfensiva(nombre)
                  THEN nombre \in herramientas_ofensivas
                  ELSE nombre \in DOMAIN herramientas_base
    /\ ( RutaEjecutar /\ NoEncontrada(Invocacion(ret)) )
       => /\ ret.llamadas[1] = "ofensivo.ejecutar_herramienta_ofensiva"
          /\ ret.resultado.mensaje =
                 "Herramienta ofensiva 'tool_starttls_test' no encontrada"

\* C30: a request resolved to the builtin reset_system and processed through
\* procesar_consulta resets nothing: the Invoker's mappings, the Catalog's
\* entries, audit trail and store and herramientas_disponibles are as before;
\* the request is recorded, estado becomes "listo" and the outcome reports
\* success; and synthesized capabilities, entries of the Catalog and learned
\* names go away only through reset_sistema (or with the process).
ResetPorConsultaNoResetea ==
    [][ /\ ( /\ pc = "procesando"
             /\ decision.accion = "ejecutar"
             /\ decision.herramienta = "reset_system" )
           => /\ UNCHANGED << herramientas, herramientas_generadas,
                              herramientas_registradas, historial_herramientas,
                              archivo, herramientas_disponibles, consultas_procesadas >>
              /\ ret'.op = "procesar_consulta"
              /\ Str(ret'.resultado) = "herramienta_existente"
              /\ ~ ret'.resultado.resultado.error
              /\ ret'.resultado.resultado.resultado = herramientas_base["reset_system"]
              /\ estado' = "listo"
              /\ Len(historial_consultas') = Len(historial_consultas) + 1
        /\ ( \/ \E n \in DOMAIN herramientas_generadas :
                    n \notin DOMAIN herramientas_generadas'
             \/ \E n \in DOMAIN herramientas_registradas :
                    n \notin DOMAIN herramientas_registradas'
             \/ \E n \in herramientas_disponibles : n \notin herramientas_disponibles' )
           => ret'.op \in { "reset_sistema", "__init__" }
      ]_vars

\* C30, its case: a reset request has returned with success while the
\* Invoker, the Catalog and the classifier hold a synthesized capability.
ResetSinEfecto ==
    /\ ret.op = "procesar_consulta"
    /\ pc = "idle"
    /\ Str(ret.resultado) = "herramienta_existente"
    /\ ret.resultado.herramienta = "reset_system"
    /\ ~ ret.resultado.resultado.error
    /\ DOMAIN herramientas_generadas # {}
    /\ DOMAIN herramientas_registradas # {}
    /\ Len(historial_herramientas) > 0
    /\ herramientas_disponibles # {}
    /\ consultas_procesadas >= 2

====
